---------------------------- MODULE Spec2Model ----------------------------
(***************************************************************************)
(* Batched value transfers: the on-chain executor BatchTransfer.sol and    *)
(* the client-side batch manager batchTransactions.js.                     *)
(*                                                                         *)
(* Three specifications share the module's variables:                      *)
(*   SpecEth     native-asset calls to the executor against a ledger       *)
(*   SpecToken   token calls to the executor against a ledger              *)
(*   SpecBatch   the batch manager's synchronous operations                *)
(*   SpecSubmit  the asynchronous operations (estimateGas,                 *)
(*               sendBatchTransaction) running against the ledger          *)
(***************************************************************************)
EXTENDS Integers, Sequences, FiniteSets, TLC

VARIABLES
    ethBal,       \* ledger: native balance of every account
    tokBal,       \* ledger: tokBal[t][a] balance of account a in token t
    allowance,    \* ledger: allowance[t] of the signer towards the executor
    lastCall,     \* the last call made to the executor, with the ledger before it
    transactionGroups, \* batch manager: [eth, erc20], the queued entries
    lastOp,       \* the manager's last synchronous operation, with the batch before it
    added,        \* entries added successfully since the last clearTransactions
    config,       \* the configuration createBatchManager was given
    connection,   \* the memoized connection: "null" until initializeConnection returns
    pc,           \* where the running asynchronous operation is suspended, or "idle"
    sub,          \* the running (or last) asynchronous operation's arguments and locals
    outcome,      \* what that operation gave its caller: nothing yet, a result or an error
    log,          \* what that operation did on the network, in order
    opsStarted,   \* asynchronous operations started
    callers,      \* operations called without waiting for one another (SpecConnect):
                  \* where each one is in its getConnection(), and the connection it got
    inits         \* the calls of initializeConnection these operations made: how many,
                  \* and the one whose result `connection` holds

chainVars == <<ethBal, tokBal, allowance, lastCall>>
ledgerVars == <<ethBal, tokBal, allowance>>
batchVars == <<transactionGroups, lastOp, added>>
asyncVars == <<config, connection, pc, sub, outcome, log, opsStarted, callers, inits>>
vars == <<ethBal, tokBal, allowance, lastCall, transactionGroups, lastOp, added,
          config, connection, pc, sub, outcome, log, opsStarted, callers, inits>>

(***************************************************************************)
(* Bounds of the model.                                                    *)
(***************************************************************************)
MaxLen == 2        \* longest recipients / amounts array of a call
MaxAmount == 2     \* largest single amount of a call
MaxUint == 500000000  \* type(uint256).max, scaled down to the model's integers
EthSupply == 3     \* native funds the signer starts with
TokSupply == 3     \* token funds the signer starts with (per token)
MaxEntries == 2    \* most entries queued in a batch
MaxCallers == 3       \* operations called without waiting for one another
MaxOps == 2        \* most asynchronous operations started in a behaviour

(***************************************************************************)
(* Accounts.  "S" is msg.sender (the signer, an externally owned account), *)
(* "A" an account that accepts value, "R" a contract whose receive         *)
(* reverts, "X" the executor itself and "Z" address(0).                    *)
(***************************************************************************)
Signer == "S"
Executor == "X"
ZeroAddress == "Z"
Accounts == {"S", "A", "R", "X", "Z"}
EthRecipients == {"S", "A", "R", "X", "Z"}
TokenRecipients == {"A", "R", "Z"}
Tokens == {"T1", "T2"}
TokenArgs == Tokens \cup {ZeroAddress}

SeqsUpTo(S, n) == UNION {[1..k -> S] : k \in 0..n}

\* BatchTransfer.receive: a bare value transfer to the executor reverts.
ExecutorReceive == FALSE

\* Whether a low-level call{value: v}("") to account a succeeds.
Accepts(a) ==
    CASE a = Executor -> ExecutorReceive
      [] a = "R" -> FALSE
      [] OTHER -> TRUE

(***************************************************************************)
(* Checked uint256 addition (Solidity 0.8): -1 stands for the Panic.       *)
(***************************************************************************)
RECURSIVE SumFrom(_, _)
SumFrom(amounts, i) ==
    IF i > Len(amounts) THEN 0 ELSE amounts[i] + SumFrom(amounts, i + 1)

RECURSIVE CheckedSum(_, _, _)
CheckedSum(amounts, i, acc) ==
    IF i > Len(amounts) THEN acc
    ELSE IF acc + amounts[i] > MaxUint THEN -1
    ELSE CheckedSum(amounts, i + 1, acc + amounts[i])

Ledger(e, t, a) == [eth |-> e, tok |-> t, allow |-> a]
Reverted(pre, why) ==
    [reverted |-> TRUE, reason |-> why, post |-> pre, events |-> <<>>]
Committed(post, evs) ==
    [reverted |-> FALSE, reason |-> "", post |-> post, events |-> evs]

Event(sender, token, total, count) ==
    [sender |-> sender, tokenAddress |-> token,
     totalAmount |-> total, recipientCount |-> count]

(***************************************************************************)
(* multiSendETH, lines 44-50: the transfer loop.  eth is the balance map   *)
(* while the call runs; the result is the map after the loop, or the       *)
(* reason the loop reverted.                                               *)
(***************************************************************************)
RECURSIVE ethLoop_skipFailed(_, _, _, _)
ethLoop_skipFailed(eth, recipients, amounts, i) ==
    IF i > Len(recipients) THEN [ok |-> TRUE, why |-> "", eth |-> eth]
    ELSE IF recipients[i] = ZeroAddress
         \/ ~Accepts(recipients[i]) \/ eth[Executor] < amounts[i]
    THEN ethLoop_skipFailed(eth, recipients, amounts, i + 1)
    ELSE ethLoop_skipFailed(
             [eth EXCEPT ![Executor] = @ - amounts[i],
                         ![recipients[i]] = @ + amounts[i]],
             recipients, amounts, i + 1)

RECURSIVE ethLoop_firstAmount(_, _, _, _)
ethLoop_firstAmount(eth, recipients, amounts, i) ==
    IF i > Len(recipients) THEN [ok |-> TRUE, why |-> "", eth |-> eth]
    ELSE IF recipients[i] = ZeroAddress
    THEN [ok |-> FALSE, why |-> "InvalidRecipient", eth |-> eth]
    ELSE IF ~Accepts(recipients[i]) \/ eth[Executor] < amounts[1]
    THEN [ok |-> FALSE, why |-> "TransferFailed", eth |-> eth]
    ELSE ethLoop_firstAmount(
             [eth EXCEPT ![Executor] = @ - amounts[1],
                         ![recipients[i]] = @ + amounts[1]],
             recipients, amounts, i + 1)

RECURSIVE ethLoop(_, _, _, _)
ethLoop(eth, recipients, amounts, i) ==
    IF i > Len(recipients) THEN [ok |-> TRUE, why |-> "", eth |-> eth]
    ELSE IF recipients[i] = ZeroAddress
    THEN [ok |-> FALSE, why |-> "InvalidRecipient", eth |-> eth]
    ELSE IF ~Accepts(recipients[i]) \/ eth[Executor] < amounts[i]
    THEN [ok |-> FALSE, why |-> "TransferFailed", eth |-> eth]
    ELSE ethLoop(
             [eth EXCEPT ![Executor] = @ - amounts[i],
                         ![recipients[i]] = @ + amounts[i]],
             recipients, amounts, i + 1)

\* multiSendETH with line 42 weakened to msg.value >= totalAmount: the
\* excess stays with the executor.
multiSendETH_acceptExcess(pre, sender, recipients, amounts, value) ==
    IF Len(recipients) # Len(amounts) THEN Reverted(pre, "LengthMismatch")
    ELSE IF Len(recipients) = 0 THEN Reverted(pre, "EmptyInput")
    ELSE
      LET totalAmount == CheckedSum(amounts, 1, 0)
          entered == [pre.eth EXCEPT ![sender] = @ - value,
                                     ![Executor] = @ + value]
      IN IF totalAmount = -1 THEN Reverted(pre, "Panic")
         ELSE IF value < totalAmount THEN Reverted(pre, "ValueMismatch")
         ELSE
           LET r == ethLoop(entered, recipients, amounts, 1)
           IN IF ~r.ok THEN Reverted(pre, r.why)
              ELSE Committed(
                     [pre EXCEPT !.eth = r.eth],
                     <<Event(sender, ZeroAddress, totalAmount, Len(recipients))>>)

(***************************************************************************)
(* multiSendETH(recipients, amounts) payable, called by sender with value  *)
(* attached, on ledger pre.  The value is credited to the executor when    *)
(* the call starts; a revert restores the ledger the call started from.    *)
(***************************************************************************)
multiSendETH(pre, sender, recipients, amounts, value) ==
    IF Len(recipients) # Len(amounts) THEN Reverted(pre, "LengthMismatch")
    ELSE IF Len(recipients) = 0 THEN Reverted(pre, "EmptyInput")
    ELSE
      LET totalAmount == CheckedSum(amounts, 1, 0)
          entered == [pre.eth EXCEPT ![sender] = @ - value,
                                     ![Executor] = @ + value]
      IN IF totalAmount = -1 THEN Reverted(pre, "Panic")
         ELSE IF value # totalAmount THEN Reverted(pre, "ValueMismatch")
         ELSE
           LET r == ethLoop(entered, recipients, amounts, 1)
           IN IF ~r.ok THEN Reverted(pre, r.why)
              ELSE Committed(
                     [pre EXCEPT !.eth = r.eth],
                     <<Event(sender, ZeroAddress, totalAmount, Len(recipients))>>)


(***************************************************************************)
(* The token consumed by the executor: a standard fungible token.          *)
(* transferFrom(from, to, amt) called by the executor moves amt from the   *)
(* signer and spends the signer's allowance; it fails on a zero receiver,  *)
(* an insufficient balance or an insufficient allowance, and               *)
(* safeTransferFrom turns the failure into a revert.                       *)
(***************************************************************************)
transferFromOk(tok, allow, token, from, to, amt) ==
    /\ to # ZeroAddress
    /\ tok[token][from] >= amt
    /\ allow[token] >= amt

transferFromTok(tok, token, from, to, amt) ==
    [tok EXCEPT ![token] = [[@ EXCEPT ![from] = @ - amt] EXCEPT ![to] = @ + amt]]

(***************************************************************************)
(* multiSendToken, lines 84-91: the transfer loop.                         *)
(***************************************************************************)
RECURSIVE tokenLoop_skipFailed(_, _, _, _, _, _, _)
tokenLoop_skipFailed(tok, allow, token, sender, recipients, amounts, i) ==
    IF i > Len(recipients) THEN [ok |-> TRUE, why |-> "", tok |-> tok, allow |-> allow]
    ELSE IF recipients[i] = ZeroAddress \/ amounts[i] = 0
         \/ ~transferFromOk(tok, allow, token, sender, recipients[i], amounts[i])
    THEN tokenLoop_skipFailed(tok, allow, token, sender, recipients, amounts, i + 1)
    ELSE tokenLoop_skipFailed(
             transferFromTok(tok, token, sender, recipients[i], amounts[i]),
             [allow EXCEPT ![token] = @ - amounts[i]],
             token, sender, recipients, amounts, i + 1)

\* tokenLoop transferring amounts[1] at every position.
RECURSIVE tokenLoop_firstAmount(_, _, _, _, _, _, _)
tokenLoop_firstAmount(tok, allow, token, sender, recipients, amounts, i) ==
    IF i > Len(recipients) THEN [ok |-> TRUE, why |-> "", tok |-> tok, allow |-> allow]
    ELSE IF recipients[i] = ZeroAddress
    THEN [ok |-> FALSE, why |-> "InvalidRecipient", tok |-> tok, allow |-> allow]
    ELSE IF amounts[i] = 0
    THEN [ok |-> FALSE, why |-> "ZeroAmount", tok |-> tok, allow |-> allow]
    ELSE IF ~transferFromOk(tok, allow, token, sender, recipients[i], amounts[1])
    THEN [ok |-> FALSE, why |-> "TransferFromFailed", tok |-> tok, allow |-> allow]
    ELSE tokenLoop_firstAmount(
             transferFromTok(tok, token, sender, recipients[i], amounts[1]),
             [allow EXCEPT ![token] = @ - amounts[1]],
             token, sender, recipients, amounts, i + 1)

RECURSIVE tokenLoop(_, _, _, _, _, _, _)
tokenLoop(tok, allow, token, sender, recipients, amounts, i) ==
    IF i > Len(recipients) THEN [ok |-> TRUE, why |-> "", tok |-> tok, allow |-> allow]
    ELSE IF recipients[i] = ZeroAddress
    THEN [ok |-> FALSE, why |-> "InvalidRecipient", tok |-> tok, allow |-> allow]
    ELSE IF amounts[i] = 0
    THEN [ok |-> FALSE, why |-> "ZeroAmount", tok |-> tok, allow |-> allow]
    ELSE IF ~transferFromOk(tok, allow, token, sender, recipients[i], amounts[i])
    THEN [ok |-> FALSE, why |-> "TransferFromFailed", tok |-> tok, allow |-> allow]
    ELSE tokenLoop(
             transferFromTok(tok, token, sender, recipients[i], amounts[i]),
             [allow EXCEPT ![token] = @ - amounts[i]],
             token, sender, recipients, amounts, i + 1)

\* multiSendToken, lines 79-82: the allowance check on the total.
AllowanceSufficient(allow, token, totalAmount) == allow[token] >= totalAmount

\* multiSendToken without the check on the total and with failed transfers
\* skipped instead of reverting.
multiSendToken_unchecked(pre, sender, token, recipients, amounts) ==
    IF token = ZeroAddress THEN Reverted(pre, "InvalidToken")
    ELSE IF Len(recipients) # Len(amounts) THEN Reverted(pre, "LengthMismatch")
    ELSE IF Len(recipients) = 0 THEN Reverted(pre, "EmptyInput")
    ELSE
      LET r == tokenLoop_skipFailed(pre.tok, pre.allow, token, sender, recipients,
                                    amounts, 1)
      IN Committed([pre EXCEPT !.tok = r.tok, !.allow = r.allow],
                   <<Event(sender, token, SumFrom(amounts, 1), Len(recipients))>>)

(***************************************************************************)
(* multiSendToken(token, recipients, amounts), called by sender.           *)
(***************************************************************************)
multiSendToken(pre, sender, token, recipients, amounts) ==
    IF token = ZeroAddress THEN Reverted(pre, "InvalidToken")
    ELSE IF Len(recipients) # Len(amounts) THEN Reverted(pre, "LengthMismatch")
    ELSE IF Len(recipients) = 0 THEN Reverted(pre, "EmptyInput")
    ELSE
      LET totalAmount == CheckedSum(amounts, 1, 0)
      IN IF totalAmount = -1 THEN Reverted(pre, "Panic")
         ELSE IF ~AllowanceSufficient(pre.allow, token, totalAmount)
         THEN Reverted(pre, "InsufficientAllowance")
         ELSE
           LET r == tokenLoop(pre.tok, pre.allow, token, sender, recipients, amounts, 1)
           IN IF ~r.ok THEN Reverted(pre, r.why)
              ELSE Committed(
                     [pre EXCEPT !.tok = r.tok, !.allow = r.allow],
                     <<Event(sender, token, totalAmount, Len(recipients))>>)

\* multiTokenLoop with line 120 comparing the allowance against the total of
\* all amounts of the call.
RECURSIVE multiTokenLoop_totalAllowance(_, _, _, _, _, _, _, _)
multiTokenLoop_totalAllowance(tok, allow, evs, sender, tokens, recipient, amounts, i) ==
    IF i > Len(tokens)
    THEN [ok |-> TRUE, why |-> "", tok |-> tok, allow |-> allow, events |-> evs]
    ELSE IF tokens[i] = ZeroAddress
    THEN [ok |-> FALSE, why |-> "InvalidToken", tok |-> tok, allow |-> allow, events |-> evs]
    ELSE IF amounts[i] = 0
    THEN [ok |-> FALSE, why |-> "ZeroAmount", tok |-> tok, allow |-> allow, events |-> evs]
    ELSE IF allow[tokens[i]] < SumFrom(amounts, 1)
    THEN [ok |-> FALSE, why |-> "InsufficientAllowance", tok |-> tok, allow |-> allow,
          events |-> evs]
    ELSE IF ~transferFromOk(tok, allow, tokens[i], sender, recipient, amounts[i])
    THEN [ok |-> FALSE, why |-> "TransferFromFailed", tok |-> tok, allow |-> allow,
          events |-> evs]
    ELSE multiTokenLoop_totalAllowance(
             transferFromTok(tok, tokens[i], sender, recipient, amounts[i]),
             [allow EXCEPT ![tokens[i]] = @ - amounts[i]],
             Append(evs, Event(sender, tokens[i], amounts[i], 1)),
             sender, tokens, recipient, amounts, i + 1)

(***************************************************************************)
(* multiTokenTransfer, lines 112-128: one token per position, one event    *)
(* per token.                                                              *)
(***************************************************************************)
RECURSIVE multiTokenLoop(_, _, _, _, _, _, _, _)
multiTokenLoop(tok, allow, evs, sender, tokens, recipient, amounts, i) ==
    IF i > Len(tokens)
    THEN [ok |-> TRUE, why |-> "", tok |-> tok, allow |-> allow, events |-> evs]
    ELSE IF tokens[i] = ZeroAddress
    THEN [ok |-> FALSE, why |-> "InvalidToken", tok |-> tok, allow |-> allow, events |-> evs]
    ELSE IF amounts[i] = 0
    THEN [ok |-> FALSE, why |-> "ZeroAmount", tok |-> tok, allow |-> allow, events |-> evs]
    ELSE IF allow[tokens[i]] < amounts[i]
    THEN [ok |-> FALSE, why |-> "InsufficientAllowance", tok |-> tok, allow |-> allow,
          events |-> evs]
    ELSE IF ~transferFromOk(tok, allow, tokens[i], sender, recipient, amounts[i])
    THEN [ok |-> FALSE, why |-> "TransferFromFailed", tok |-> tok, allow |-> allow,
          events |-> evs]
    ELSE multiTokenLoop(
             transferFromTok(tok, tokens[i], sender, recipient, amounts[i]),
             [allow EXCEPT ![tokens[i]] = @ - amounts[i]],
             Append(evs, Event(sender, tokens[i], amounts[i], 1)),
             sender, tokens, recipient, amounts, i + 1)

multiTokenTransfer(pre, sender, tokens, recipient, amounts) ==
    IF Len(tokens) # Len(amounts) THEN Reverted(pre, "LengthMismatch")
    ELSE IF Len(tokens) = 0 THEN Reverted(pre, "EmptyInput")
    ELSE IF recipient = ZeroAddress THEN Reverted(pre, "InvalidRecipient")
    ELSE
      LET r == multiTokenLoop(pre.tok, pre.allow, <<>>, sender, tokens, recipient,
                              amounts, 1)
      IN IF ~r.ok THEN Reverted(pre, r.why)
         ELSE Committed([pre EXCEPT !.tok = r.tok, !.allow = r.allow], r.events)

\* receive() and fallback(): every bare value transfer reverts.
receive(pre, sender, value) == Reverted(pre, "DirectTransfer")
fallback(pre, sender, value) == Reverted(pre, "DirectTransfer")

(***************************************************************************)
(* SpecEth and SpecToken: the signer calls the executor (and the tokens'   *)
(* approve) on the ledger.  lastCall keeps the call, the ledger before it  *)
(* and what it emitted.                                                    *)
(***************************************************************************)
CurrentLedger == Ledger(ethBal, tokBal, allowance)

NoCall ==
    [fn |-> "none", token |-> ZeroAddress, tokens |-> <<>>, recipients |-> <<>>,
     amounts |-> <<>>, value |-> 0, pre |-> Ledger(<<>>, <<>>, <<>>),
     reverted |-> FALSE, reason |-> "", events |-> <<>>]

InitLedger ==
    /\ ethBal = [a \in Accounts |-> IF a = Signer THEN EthSupply ELSE 0]
    /\ tokBal = [t \in Tokens |-> [a \in Accounts |-> IF a = Signer THEN TokSupply ELSE 0]]
    /\ allowance = [t \in Tokens |-> 0]

EmptyGroups == [eth |-> <<>>, erc20 |-> <<>>]
NoOp == [op |-> "none", threw |-> FALSE, error |-> "", pre |-> EmptyGroups]

InitBatch ==
    /\ transactionGroups = EmptyGroups
    /\ lastOp = NoOp
    /\ added = 0

NoOptions == [ethGasLimit |-> 0, tokenGasLimits |-> <<>>, gasPrice |-> 0]
NoResults == [ethTransaction |-> <<>>, erc20Transactions |-> <<>>, totalTransactions |-> 0]
NoSub ==
    [op |-> "none", options |-> NoOptions, results |-> NoResults, g |-> 0,
     recipients |-> <<>>, amounts |-> <<>>, totalValue |-> 0, gasLimit |-> 0,
     decimals |-> 0, balances |-> <<>>, keys |-> <<>>, live |-> FALSE, txs |-> <<>>]
NoOutcome == [kind |-> "none", error |-> "", value |-> <<>>]

Callers == 1..MaxCallers
NoCaller == [pc |-> "idle", run |-> 0, got |-> 0]
NoCallers == [p \in Callers |-> NoCaller]
NoInits == [runs |-> 0, memo |-> 0]

InitAsync ==
    /\ callers = NoCallers
    /\ inits = NoInits
    /\ config = "node"
    /\ connection = "null"
    /\ pc = "idle"
    /\ sub = NoSub
    /\ outcome = NoOutcome
    /\ log = <<>>
    /\ opsStarted = 0

InitChain ==
    /\ InitLedger
    /\ lastCall = NoCall
    /\ InitBatch
    /\ InitAsync

Apply(call, r) ==
    /\ lastCall = NoCall
    /\ ethBal' = r.post.eth
    /\ tokBal' = r.post.tok
    /\ allowance' = r.post.allow
    /\ lastCall' = [call EXCEPT !.pre = CurrentLedger, !.reverted = r.reverted,
                                !.reason = r.reason, !.events = r.events]
    /\ UNCHANGED batchVars
    /\ UNCHANGED asyncVars

CallMultiSendETH ==
    /\ lastCall = NoCall
    /\ \E recipients \in SeqsUpTo(EthRecipients, MaxLen),
       amounts \in SeqsUpTo((0..MaxAmount) \cup {MaxUint}, MaxLen),
       value \in 0..ethBal[Signer] :
        Apply([NoCall EXCEPT !.fn = "multiSendETH", !.recipients = recipients,
                             !.amounts = amounts, !.value = value],
              multiSendETH(CurrentLedger, Signer, recipients, amounts, value))

CallMultiSendToken ==
    /\ lastCall = NoCall
    /\ \E token \in TokenArgs,
       recipients \in SeqsUpTo(TokenRecipients, MaxLen),
       amounts \in SeqsUpTo(0..MaxAmount, MaxLen) :
        Apply([NoCall EXCEPT !.fn = "multiSendToken", !.token = token,
                             !.recipients = recipients, !.amounts = amounts],
              multiSendToken(CurrentLedger, Signer, token, recipients, amounts))

CallMultiTokenTransfer ==
    /\ lastCall = NoCall
    /\ \E tokens \in SeqsUpTo(TokenArgs, MaxLen),
       recipient \in TokenRecipients,
       amounts \in SeqsUpTo(0..MaxAmount, MaxLen) :
        Apply([NoCall EXCEPT !.fn = "multiTokenTransfer", !.tokens = tokens,
                             !.recipients = <<recipient>>, !.amounts = amounts],
              multiTokenTransfer(CurrentLedger, Signer, tokens, recipient, amounts))

CallReceive ==
    /\ lastCall = NoCall
    /\ \E value \in 0..ethBal[Signer] :
        Apply([NoCall EXCEPT !.fn = "receive", !.value = value],
              receive(CurrentLedger, Signer, value))

CallFallback ==
    /\ lastCall = NoCall
    /\ \E value \in 0..ethBal[Signer] :
        Apply([NoCall EXCEPT !.fn = "fallback", !.value = value],
              fallback(CurrentLedger, Signer, value))

\* The token's approve(executor, amt), called by the signer.
approve(pre, token, amt) == Committed([pre EXCEPT !.allow[token] = amt], <<>>)

CallApprove ==
    /\ lastCall = NoCall
    /\ \E token \in Tokens, amt \in 0..TokSupply :
        Apply([NoCall EXCEPT !.fn = "approve", !.token = token, !.value = amt],
              approve(CurrentLedger, token, amt))

\* The call's record is dropped before the next call is made.
Settle ==
    /\ lastCall # NoCall
    /\ lastCall' = NoCall
    /\ UNCHANGED <<ethBal, tokBal, allowance>>
    /\ UNCHANGED batchVars
    /\ UNCHANGED asyncVars

NextEth ==
    \/ Settle
    \/ CallMultiSendETH
    \/ CallReceive
    \/ CallFallback

NextToken ==
    \/ Settle
    \/ CallMultiSendToken
    \/ CallMultiTokenTransfer
    \/ CallApprove

SpecEth == InitChain /\ [][NextEth]_vars
SpecToken == InitChain /\ [][NextToken]_vars



(***************************************************************************)
(* The batch manager, batchTransactions.js.                                *)
(*                                                                         *)
(* Address strings.  "0xAa" and "0xaa" are the checksummed and the         *)
(* lower-case spelling of account "A", "0xRr" is account "R", "0x00" is    *)
(* address(0), "0xT1" and "0xT2" are the two tokens, and "bad" is no       *)
(* address.  ethers.isAddress accepts every well-formed spelling.          *)
(***************************************************************************)
AddressStrings == {"0xAa", "0xaa", "0xRr", "0x00", "0xT1", "0xT2"}

isAddress(a) == a \in AddressStrings

\* The account an address string names.
AccountOf(a) ==
    CASE a = "0xAa" -> "A"
      [] a = "0xaa" -> "A"
      [] a = "0xRr" -> "R"
      [] a = "0x00" -> ZeroAddress
      [] a = "0xT1" -> "T1"
      [] a = "0xT2" -> "T2"

(***************************************************************************)
(* Decimal strings.  A well-formed one is [neg, whole, frac]: an optional  *)
(* minus sign, the value of the digits before the point and the digits     *)
(* after it; anything else is Malformed.                                   *)
(***************************************************************************)
Malformed == [kind |-> "bad"]
Decimal(neg, whole, frac) == [kind |-> "num", neg |-> neg, whole |-> whole, frac |-> frac]
StrOne == Decimal(FALSE, 1, <<>>)        \* "1"
StrHalf == Decimal(FALSE, 0, <<5>>)      \* "0.5"
StrZero == Decimal(FALSE, 0, <<>>)       \* "0"
StrMinusOne == Decimal(TRUE, 1, <<>>)    \* "-1"

\* parseEther's decimals: 18 in ethers, scaled down to keep one ether within
\* the model checker's integers.
EtherDecimals == 6

RECURSIVE Pow10(_)
Pow10(n) == IF n = 0 THEN 1 ELSE 10 * Pow10(n - 1)

\* The integer the first n digits of frac spell, padded with zeros to n digits.
RECURSIVE FracValue(_, _, _)
FracValue(frac, i, n) ==
    IF i > n THEN 0
    ELSE (IF i <= Len(frac) THEN frac[i] ELSE 0) * Pow10(n - i) + FracValue(frac, i + 1, n)

\* ethers.parseUnits(value, decimals): [ok, v].  Fails on a malformed string
\* and on non-zero digits beyond the decimals; a minus sign is accepted.
parseUnits(value, decimals) ==
    IF value.kind # "num" THEN [ok |-> FALSE, v |-> 0]
    ELSE IF \E i \in DOMAIN value.frac : i > decimals /\ value.frac[i] # 0
    THEN [ok |-> FALSE, v |-> 0]
    ELSE [ok |-> TRUE,
          v |-> (IF value.neg THEN -1 ELSE 1)
                * (value.whole * Pow10(decimals) + FracValue(value.frac, 1, decimals))]

parseEther(value) == parseUnits(value, EtherDecimals)

\* ethers.formatUnits(v, decimals): the decimal string of v / 10^decimals,
\* with trailing zeros of the fraction trimmed down to one digit, and no
\* fraction at all when decimals = 0.
RECURSIVE TrimZeros(_)
TrimZeros(frac) ==
    IF Len(frac) > 1 /\ frac[Len(frac)] = 0
    THEN TrimZeros(SubSeq(frac, 1, Len(frac) - 1))
    ELSE frac

formatUnits(v, decimals) ==
    LET abs == IF v < 0 THEN -v ELSE v
        p == Pow10(decimals)
    IN Decimal(v < 0, abs \div p,
               TrimZeros([i \in 1..decimals |-> ((abs % p) \div Pow10(decimals - i)) % 10]))

formatEther(v) == formatUnits(v, EtherDecimals)

(***************************************************************************)
(* transactionGroups.erc20 is an object keyed by the token address string; *)
(* its keys are kept in insertion order, so it is a sequence of            *)
(* [tokenAddress, txs].                                                    *)
(***************************************************************************)
HasGroup(erc20, tokenAddress) ==
    \E i \in DOMAIN erc20 : erc20[i].tokenAddress = tokenAddress

GroupIndex(erc20, tokenAddress) ==
    CHOOSE i \in DOMAIN erc20 : erc20[i].tokenAddress = tokenAddress

Threw(tg, error) == [threw |-> TRUE, error |-> error, tg |-> tg]
Returned(tg) == [threw |-> FALSE, error |-> "", tg |-> tg]

\* addEthTransaction(to, value), lines 74-91.
addEthTransaction(tg, to, value) ==
    IF ~isAddress(to) THEN Threw(tg, "InvalidRecipient")
    ELSE
      LET valueInWei == parseEther(value)
      IN IF ~valueInWei.ok THEN Threw(tg, "InvalidAmount")
         ELSE Returned([tg EXCEPT !.eth = Append(@, [to |-> to, value |-> valueInWei.v])])

\* addErc20Transaction(tokenAddress, to, value, decimals), lines 94-123: the
\* token's group is created (lines 105-107) before the amount is converted
\* (line 110), so a conversion that throws leaves the new, empty group behind.
addErc20Transaction(tg, tokenAddress, to, value, decimals) ==
    IF ~isAddress(tokenAddress) THEN Threw(tg, "InvalidToken")
    ELSE IF ~isAddress(to) THEN Threw(tg, "InvalidRecipient")
    ELSE
      LET withGroup ==
            IF HasGroup(tg.erc20, tokenAddress) THEN tg
            ELSE [tg EXCEPT !.erc20 =
                    Append(@, [tokenAddress |-> tokenAddress, txs |-> <<>>])]
          valueWithDecimals == parseUnits(value, decimals)
      IN IF ~valueWithDecimals.ok THEN Threw(withGroup, "InvalidAmount")
         ELSE Returned(
                [withGroup EXCEPT
                   !.erc20[GroupIndex(withGroup.erc20, tokenAddress)].txs =
                      Append(@, [to |-> to, value |-> valueWithDecimals.v,
                                 decimals |-> decimals])])

\* clearTransactions(), lines 126-130.
clearTransactions_ethOnly(tg) == [tg EXCEPT !.eth = <<>>]
clearTransactions(tg) == [eth |-> <<>>, erc20 |-> <<>>]

RECURSIVE erc20Count(_, _)
erc20Count(erc20, i) ==
    IF i > Len(erc20) THEN 0 ELSE Len(erc20[i].txs) + erc20Count(erc20, i + 1)

RECURSIVE totalValue(_, _)
totalValue(txs, i) ==
    IF i > Len(txs) THEN 0 ELSE txs[i].value + totalValue(txs, i + 1)

\* The Set of recipient strings getBatchStatus collects, lines 139-156.
uniqueRecipients(tg) ==
    {tg.eth[i].to : i \in DOMAIN tg.eth}
    \cup UNION {{tg.erc20[g].txs[i].to : i \in DOMAIN tg.erc20[g].txs} : g \in DOMAIN tg.erc20}

\* getBatchStatus(), lines 133-166.
getBatchStatus(tg) ==
    [totalTransactions |-> Len(tg.eth) + erc20Count(tg.erc20, 1),
     ethTransactions |-> Len(tg.eth),
     erc20Transactions |-> erc20Count(tg.erc20, 1),
     erc20TokenCount |-> Len(tg.erc20),
     totalEthValue |-> formatEther(totalValue(tg.eth, 1)),
     uniqueRecipients |-> Cardinality(uniqueRecipients(tg))]

(***************************************************************************)
(* SpecBatch: the manager's synchronous operations, called with every      *)
(* argument of the input sets.  A call that would queue an entry beyond    *)
(* MaxEntries is not made.                                                 *)
(***************************************************************************)
BatchAddresses == {"0xAa", "0xaa", "0x00", "bad"}
BatchTokens == {"0xT1", "0xT2", "bad"}
BatchValues == {StrOne, StrHalf, Malformed}
BatchDecimals == {0, 1}

Record(op, r) ==
    /\ r.threw \/ getBatchStatus(transactionGroups).totalTransactions < MaxEntries
    /\ transactionGroups' = r.tg
    /\ lastOp' = [op |-> op, threw |-> r.threw, error |-> r.error,
                  pre |-> transactionGroups]
    /\ added' = IF r.threw THEN added ELSE added + 1

AddEthTransaction(tos, values) ==
    \E to \in tos, value \in values :
        Record("addEthTransaction", addEthTransaction(transactionGroups, to, value))

AddErc20Transaction(tokenAddresses, tos, values, decimalss) ==
    \E tokenAddress \in tokenAddresses, to \in tos, value \in values,
       decimals \in decimalss :
        Record("addErc20Transaction",
               addErc20Transaction(transactionGroups, tokenAddress, to, value, decimals))

ClearTransactions ==
    /\ transactionGroups' = clearTransactions(transactionGroups)
    /\ lastOp' = [op |-> "clearTransactions", threw |-> FALSE, error |-> "",
                  pre |-> transactionGroups]
    /\ added' = 0

BatchAddEth ==
    AddEthTransaction(BatchAddresses, BatchValues)
    /\ UNCHANGED <<chainVars, asyncVars>>
BatchAddErc20 ==
    AddErc20Transaction(BatchTokens, BatchAddresses, BatchValues, BatchDecimals)
    /\ UNCHANGED <<chainVars, asyncVars>>
BatchClear ==
    ClearTransactions /\ UNCHANGED <<chainVars, asyncVars>>

InitBatchSpec ==
    /\ InitLedger
    /\ lastCall = NoCall
    /\ InitBatch
    /\ InitAsync

NextBatch ==
    \/ BatchAddEth
    \/ BatchAddErc20
    \/ BatchClear

SpecBatch == InitBatchSpec /\ [][NextBatch]_vars

\* The add functions given amounts with and without a minus sign.
SignedValues == {StrOne, StrZero, StrMinusOne}
SignedAddresses == {"0xAa"}
SignedTokens == {"0xT1"}

SignedAddEth ==
    AddEthTransaction(SignedAddresses, SignedValues)
    /\ UNCHANGED <<chainVars, asyncVars>>
SignedAddErc20 ==
    AddErc20Transaction(SignedTokens, SignedAddresses, SignedValues, BatchDecimals)
    /\ UNCHANGED <<chainVars, asyncVars>>

NextSigned ==
    \/ SignedAddEth
    \/ SignedAddErc20
    \/ BatchClear

SpecSigned == InitBatchSpec /\ [][NextSigned]_vars


(***************************************************************************)
(* The asynchronous operations.  Each action below is one run of the       *)
(* operation's code from one await to the next.  An awaited network call   *)
(* either yields what the ledger says or is rejected (ok = FALSE).         *)
(***************************************************************************)
Configs == {"node", "browser", "incomplete"}

\* initializeConnection(config), lines 10-51: throws on a configuration that
\* lacks the contract address, the provider URL or the private key; with an
\* injected wallet it awaits provider.getSigner(), which the wallet may reject.
initializeConnection(cfg, walletOk) ==
    CASE cfg = "incomplete" -> FALSE
      [] cfg = "browser" -> walletOk
      [] OTHER -> TRUE

GasEstimates == {21000, 96394}
GasLimitOverride == 100000
GasPrices == {0, 5}

\* Lines 267, 375 and 431: (estimate * 110n) / 100n.
withBuffer(gasEstimate) == (gasEstimate * 110) \div 100

\* Lines 405 and 461.
receiptStatus_alwaysSuccess(status) == "success"
receiptStatus(status) == IF status = 1 THEN "success" ELSE "failed"

Ev(ev, what, token, status) == [ev |-> ev, what |-> what, token |-> token, status |-> status]

\* tokenTxs.map(tx => tx.to) listing the entries last to first.
AccountsOf_reversed(txs) == [i \in DOMAIN txs |-> AccountOf(txs[Len(txs) + 1 - i].to)]

\* The accounts and the token an entry's strings name on the ledger.
AccountsOf(txs) == [i \in DOMAIN txs |-> AccountOf(txs[i].to)]
ValuesOf(txs) == [i \in DOMAIN txs |-> txs[i].value]

RECURSIVE NextGroup(_, _)
NextGroup(erc20, g) ==
    IF g > Len(erc20) THEN 0
    ELSE IF Len(erc20[g].txs) > 0 THEN g
    ELSE NextGroup(erc20, g + 1)

\* The keys a for-in loop over transactionGroups.erc20 visits: those the
\* object has when the loop starts, in the order they were added.  (A key
\* added while the loop runs is not visited by the engines the code runs on.)
KeysOf(erc20) == [g \in DOMAIN erc20 |-> erc20[g].tokenAddress]

\* The next key from position k on at which the loop body does something:
\* the key has no array any more (clearTransactions replaced the object, and
\* reading .length of undefined throws), or its array has entries.
RECURSIVE NextKey(_, _, _)
NextKey(erc20, keys, k) ==
    IF k > Len(keys) THEN 0
    ELSE IF ~HasGroup(erc20, keys[k]) THEN k
    ELSE IF Len(erc20[GroupIndex(erc20, keys[k])].txs) > 0 THEN k
    ELSE NextKey(erc20, keys, k + 1)

\* tokenAddress and tokenTxs of the loop body.  tokenTxs is a reference to
\* the group's array: it shows the entries pushed to the group after the
\* reference was taken, until clearTransactions replaces the groups.
TokenOf(s) == s.keys[s.g]
TokenTxs(s) ==
    IF s.live
    THEN transactionGroups.erc20[GroupIndex(transactionGroups.erc20, TokenOf(s))].txs
    ELSE s.txs
HasTokenGasLimit(options, tokenAddress) ==
    /\ tokenAddress \in DOMAIN options.tokenGasLimits
    /\ options.tokenGasLimits[tokenAddress] # 0

\* The operation ends by throwing: the caller gets an Error that carries a
\* message and nothing else.
Throw(s, lg, error) ==
    /\ pc' = "idle"
    /\ sub' = s
    /\ outcome' = [kind |-> "thrown", error |-> error, value |-> <<>>]
    /\ log' = Append(lg, Ev("error", error, "", 0))

Return(s, lg, value) ==
    /\ pc' = "idle"
    /\ sub' = s
    /\ outcome' = [kind |-> "returned", error |-> "", value |-> value]
    /\ log' = lg

Goto(where, s, lg) ==
    /\ pc' = where
    /\ sub' = s
    /\ outcome' = outcome
    /\ log' = lg

\* getConnection(), lines 66-71, as awaited at the head of an operation.
GetConnection(walletOk) ==
    IF connection # "null" THEN [ok |-> TRUE, conn |-> connection, ran |-> FALSE]
    ELSE IF initializeConnection(config, walletOk)
    THEN [ok |-> TRUE, conn |-> "ready", ran |-> TRUE]
    ELSE [ok |-> FALSE, conn |-> "null", ran |-> TRUE]

Connected(c, lg) == IF c.ran THEN Append(lg, Ev("connect", "", "", 0)) ELSE lg

\* The for-in loop of lines 411-465 from group index `from` on: the next
\* group with entries starts checkAndApproveToken (lines 169-182); when no
\* group is left, line 467 returns the results.
ContinueWithGroups(s, lg, from) ==
    LET keys == IF from = 1 THEN KeysOf(transactionGroups.erc20) ELSE s.keys
        g == NextKey(transactionGroups.erc20, keys, from)
        s1 == [s EXCEPT !.keys = keys]
    IN IF g = 0 THEN Return(s1, lg, s.results)
       ELSE IF ~HasGroup(transactionGroups.erc20, keys[g])
       THEN Throw([s1 EXCEPT !.g = g], lg, "TypeError")
       ELSE Goto("checkAndApprove",
                 [s1 EXCEPT !.g = g, !.live = TRUE, !.txs = <<>>],
                 lg)

\* sendBatchTransaction(options) is called, line 333.
SendBatchTransaction ==
    \E options \in {NoOptions,
                    [ethGasLimit |-> GasLimitOverride,
                     tokenGasLimits |-> [t \in {"0xT1", "0xT2"} |-> GasLimitOverride],
                     gasPrice |-> 5]} :
        /\ pc = "idle"
        /\ opsStarted < MaxOps
        /\ opsStarted' = opsStarted + 1
        /\ pc' = "send"
        /\ sub' = [NoSub EXCEPT !.op = "sendBatchTransaction", !.options = options]
        /\ outcome' = NoOutcome
        /\ log' = <<>>
        /\ UNCHANGED <<chainVars, batchVars, config, callers, inits, connection>>

\* Lines 334-363: the connection, the count, the empty-batch check, and the
\* native group's arrays.
SendBegin ==
    /\ pc = "send"
    /\ \E walletOk \in BOOLEAN :
        LET c == GetConnection(walletOk)
            lg == Connected(c, log)
            total == getBatchStatus(transactionGroups).totalTransactions
            s == [sub EXCEPT !.results.totalTransactions = total]
        IN /\ connection' = c.conn
           /\ IF ~c.ok THEN Throw(sub, lg, "ConnectionError")
              ELSE IF total = 0 THEN Throw(s, lg, "EmptyBatch")
              ELSE IF Len(transactionGroups.eth) > 0
              THEN Goto(IF s.options.ethGasLimit # 0 THEN "multiSendETH"
                        ELSE "estimateETH",
                        [s EXCEPT !.recipients = AccountsOf(transactionGroups.eth),
                                  !.amounts = ValuesOf(transactionGroups.eth),
                                  !.totalValue = totalValue(transactionGroups.eth, 1),
                                  !.gasLimit = s.options.ethGasLimit],
                        lg)
              ELSE ContinueWithGroups(s, lg, 1)
    /\ UNCHANGED <<chainVars, batchVars, config, callers, inits, opsStarted>>

\* What the node answers to an estimate of multiSendETH: it runs the call on
\* the current ledger and rejects when the sender cannot pay or the call
\* reverts.
EthCallPasses(s) ==
    /\ ethBal[Signer] >= s.totalValue
    /\ ~multiSendETH(CurrentLedger, Signer, s.recipients, s.amounts, s.totalValue).reverted

\* Lines 370-375.
SendEstimateETH ==
    /\ pc = "estimateETH"
    /\ \E ok \in BOOLEAN, gas \in GasEstimates :
        IF ok /\ EthCallPasses(sub)
        THEN Goto("multiSendETH", [sub EXCEPT !.gasLimit = withBuffer(gas)],
                  Append(log, Ev("estimate", "multiSendETH", "", 0)))
        ELSE Throw(sub, Append(log, Ev("estimate", "multiSendETH", "", 0)),
                   "EstimateFailed")
    /\ UNCHANGED <<chainVars, batchVars, config, callers, inits, connection, opsStarted>>

\* multiSendETH submitted with a value summed from the batch as it is when
\* the call is made.
SendMultiSendETH_lateValue ==
    /\ pc = "multiSendETH"
    /\ \E ok \in BOOLEAN :
        LET s == [sub EXCEPT !.totalValue = totalValue(transactionGroups.eth, 1)]
        IN IF ok /\ ethBal[Signer] >= s.totalValue
           THEN Goto("waitETH", s, Append(log, Ev("submit", "multiSendETH", "", 0)))
           ELSE Throw(s, log, "SubmitFailed")
    /\ UNCHANGED <<chainVars, batchVars, config, callers, inits, connection, opsStarted>>

\* Lines 391-395: the transaction is handed to the node.
SendMultiSendETH ==
    /\ pc = "multiSendETH"
    /\ \E ok \in BOOLEAN :
        IF ok /\ ethBal[Signer] >= sub.totalValue
        THEN Goto("waitETH", sub, Append(log, Ev("submit", "multiSendETH", "", 0)))
        ELSE Throw(sub, log, "SubmitFailed")
    /\ UNCHANGED <<chainVars, batchVars, config, callers, inits, connection, opsStarted>>

\* sendBatchTransaction dropping the native entries once their transaction
\* is finalized.
SendWaitETH_dequeue ==
    /\ pc = "waitETH"
    /\ LET r == multiSendETH(CurrentLedger, Signer, sub.recipients, sub.amounts,
                             sub.totalValue)
           status == IF r.reverted THEN 0 ELSE 1
       IN /\ ethBal' = r.post.eth
          /\ tokBal' = r.post.tok
          /\ allowance' = r.post.allow
          /\ transactionGroups' = [transactionGroups EXCEPT !.eth = <<>>]
          /\ \E ok \in BOOLEAN :
              IF ok
              THEN ContinueWithGroups(
                     [sub EXCEPT !.results.ethTransaction =
                        <<[status |-> receiptStatus(status),
                           recipients |-> Len(sub.recipients)]>>],
                     Append(log, Ev("receipt", "multiSendETH", "", status)),
                     1)
              ELSE Throw(sub, log, "WaitFailed")
    /\ UNCHANGED <<lastCall, lastOp, added, config, callers, inits, connection, opsStarted>>

\* Lines 399-408: the transaction is executed on the ledger; wait() yields
\* its receipt or is rejected.
SendWaitETH ==
    /\ pc = "waitETH"
    /\ LET r == multiSendETH(CurrentLedger, Signer, sub.recipients, sub.amounts,
                             sub.totalValue)
           status == IF r.reverted THEN 0 ELSE 1
       IN /\ ethBal' = r.post.eth
          /\ tokBal' = r.post.tok
          /\ allowance' = r.post.allow
          /\ \E ok \in BOOLEAN :
              IF ok
              THEN ContinueWithGroups(
                     [sub EXCEPT !.results.ethTransaction =
                        <<[status |-> receiptStatus(status),
                           recipients |-> Len(sub.recipients)]>>],
                     Append(log, Ev("receipt", "multiSendETH", "", status)),
                     1)
              ELSE Throw(sub, log, "WaitFailed")
    /\ UNCHANGED <<lastCall, batchVars, config, callers, inits, connection, opsStarted>>

\* checkAndApproveToken, lines 170-182: getConnection() is awaited, then the
\* total of the group is computed.
SendCheckAndApprove ==
    /\ pc = "checkAndApprove"
    /\ Goto("balanceOf", [sub EXCEPT !.totalValue = totalValue(TokenTxs(sub), 1)], log)
    /\ UNCHANGED <<chainVars, batchVars, config, callers, inits, connection, opsStarted>>

\* checkAndApproveToken without the comparison of lines 189-191.
SendBalanceOf_noCheck ==
    /\ pc = "balanceOf"
    /\ \E ok \in BOOLEAN :
        IF ~ok THEN Throw(sub, log, "QueryFailed")
        ELSE Goto("allowance", sub, log)
    /\ UNCHANGED <<chainVars, batchVars, config, callers, inits, connection, opsStarted>>

\* checkAndApproveToken, lines 185-191: the balance check.
SendBalanceOf ==
    /\ pc = "balanceOf"
    /\ \E ok \in BOOLEAN :
        LET balance == tokBal[AccountOf(TokenOf(sub))][Signer]
        IN IF ~ok THEN Throw(sub, log, "QueryFailed")
           ELSE IF balance < sub.totalValue THEN Throw(sub, log, "InsufficientBalance")
           ELSE Goto("allowance", sub, log)
    /\ UNCHANGED <<chainVars, batchVars, config, callers, inits, connection, opsStarted>>

\* What follows checkAndApproveToken: lines 418-432.
AfterApproval(s, lg) ==
    LET s1 == [s EXCEPT !.recipients = AccountsOf(TokenTxs(s)),
                        !.amounts = ValuesOf(TokenTxs(s))]
    IN IF HasTokenGasLimit(s.options, TokenOf(s))
       THEN Goto("multiSendToken",
                 [s1 EXCEPT !.gasLimit = s.options.tokenGasLimits[TokenOf(s)]], lg)
       ELSE Goto("estimateToken", s1, lg)

\* checkAndApproveToken approving whenever the allowance does not exceed the
\* total (line 200 with <= for <).
SendAllowance_approveWhenEqual ==
    /\ pc = "allowance"
    /\ \E ok \in BOOLEAN :
        LET allowed == allowance[AccountOf(TokenOf(sub))]
        IN IF ~ok THEN Throw(sub, log, "QueryFailed")
           ELSE IF allowed <= sub.totalValue THEN Goto("approve", sub, log)
           ELSE AfterApproval(sub, log)
    /\ UNCHANGED <<chainVars, batchVars, config, callers, inits, connection, opsStarted>>

\* checkAndApproveToken, lines 194-200: the allowance check.
SendAllowance ==
    /\ pc = "allowance"
    /\ \E ok \in BOOLEAN :
        LET allowed == allowance[AccountOf(TokenOf(sub))]
        IN IF ~ok THEN Throw(sub, log, "QueryFailed")
           ELSE IF allowed < sub.totalValue THEN Goto("approve", sub, log)
           ELSE AfterApproval(sub, log)
    /\ UNCHANGED <<chainVars, batchVars, config, callers, inits, connection, opsStarted>>

\* checkAndApproveToken with line 208's await missing: the approval is
\* submitted and the function returns at once.
SendApprove_noWait ==
    /\ pc = "approve"
    /\ \E ok \in BOOLEAN :
        IF ok
        THEN AfterApproval(sub, Append(log, Ev("submit", "approve", TokenOf(sub),
                                               sub.totalValue)))
        ELSE Throw(sub, log, "SubmitFailed")
    /\ UNCHANGED <<chainVars, batchVars, config, callers, inits, connection, opsStarted>>

\* checkAndApproveToken, lines 202-205: the approval of exactly totalAmount
\* is handed to the node.
SendApprove ==
    /\ pc = "approve"
    /\ \E ok \in BOOLEAN :
        IF ok
        THEN Goto("waitApprove", sub,
                  Append(log, Ev("submit", "approve", TokenOf(sub), sub.totalValue)))
        ELSE Throw(sub, log, "SubmitFailed")
    /\ UNCHANGED <<chainVars, batchVars, config, callers, inits, connection, opsStarted>>

\* checkAndApproveToken, lines 208-212: the approval is executed on the
\* ledger; approveTx.wait() returns or is rejected.
SendWaitApprove ==
    /\ pc = "waitApprove"
    /\ allowance' = [allowance EXCEPT ![AccountOf(TokenOf(sub))] = sub.totalValue]
    /\ \E ok \in BOOLEAN :
        IF ok
        THEN AfterApproval(sub, Append(log, Ev("receipt", "approve", TokenOf(sub), 1)))
        ELSE Throw(sub, log, "WaitFailed")
    /\ UNCHANGED <<ethBal, tokBal, lastCall, batchVars, config, callers, inits, connection, opsStarted>>

TokenCall(s) ==
    multiSendToken(CurrentLedger, Signer, AccountOf(TokenOf(s)), s.recipients, s.amounts)

\* Lines 426-431.
SendEstimateToken ==
    /\ pc = "estimateToken"
    /\ \E ok \in BOOLEAN, gas \in GasEstimates :
        IF ok /\ ~TokenCall(sub).reverted
        THEN Goto("multiSendToken", [sub EXCEPT !.gasLimit = withBuffer(gas)],
                  Append(log, Ev("estimate", "multiSendToken", TokenOf(sub), 0)))
        ELSE Throw(sub, Append(log, Ev("estimate", "multiSendToken", TokenOf(sub), 0)),
                   "EstimateFailed")
    /\ UNCHANGED <<chainVars, batchVars, config, callers, inits, connection, opsStarted>>

\* Lines 446-451.
SendMultiSendToken ==
    /\ pc = "multiSendToken"
    /\ \E ok \in BOOLEAN :
        IF ok
        THEN Goto("waitToken", sub,
                  Append(log, Ev("submit", "multiSendToken", TokenOf(sub), 0)))
        ELSE Throw(sub, log, "SubmitFailed")
    /\ UNCHANGED <<chainVars, batchVars, config, callers, inits, connection, opsStarted>>

\* SendWaitToken with a cross-group rollback: a token group whose transfer
\* reverts hands the native funds back to the signer.
SendWaitToken_rollback ==
    /\ pc = "waitToken"
    /\ LET r == TokenCall(sub)
           status == IF r.reverted THEN 0 ELSE 1
       IN /\ ethBal' = IF r.reverted
                       THEN [ethBal EXCEPT ![Signer] = @ + ethBal["A"], !["A"] = 0]
                       ELSE r.post.eth
          /\ tokBal' = r.post.tok
          /\ allowance' = r.post.allow
          /\ \E ok \in BOOLEAN :
              IF ok
              THEN ContinueWithGroups(
                     [sub EXCEPT !.results.erc20Transactions =
                        Append(@, [tokenAddress |-> TokenOf(sub),
                                   status |-> receiptStatus(status),
                                   recipients |-> Len(sub.recipients)])],
                     Append(log, Ev("receipt", "multiSendToken", TokenOf(sub), status)),
                     sub.g + 1)
              ELSE Throw(sub, log, "WaitFailed")
    /\ UNCHANGED <<lastCall, batchVars, config, callers, inits, connection, opsStarted>>

\* Lines 455-465: the transaction is executed on the ledger; wait() yields
\* its receipt or is rejected; the loop goes on with the next group.
SendWaitToken ==
    /\ pc = "waitToken"
    /\ LET r == TokenCall(sub)
           status == IF r.reverted THEN 0 ELSE 1
       IN /\ ethBal' = r.post.eth
          /\ tokBal' = r.post.tok
          /\ allowance' = r.post.allow
          /\ \E ok \in BOOLEAN :
              IF ok
              THEN ContinueWithGroups(
                     [sub EXCEPT !.results.erc20Transactions =
                        Append(@, [tokenAddress |-> TokenOf(sub),
                                   status |-> receiptStatus(status),
                                   recipients |-> Len(sub.recipients)])],
                     Append(log, Ev("receipt", "multiSendToken", TokenOf(sub), status)),
                     sub.g + 1)
              ELSE Throw(sub, log, "WaitFailed")
    /\ UNCHANGED <<lastCall, batchVars, config, callers, inits, connection, opsStarted>>

(***************************************************************************)
(* estimateGas(options), lines 216-281.                                    *)
(***************************************************************************)
EstimateGas ==
    \E gasPrice \in GasPrices :
        /\ pc = "idle"
        /\ opsStarted < MaxOps
        /\ opsStarted' = opsStarted + 1
        /\ pc' = "estimate"
        /\ sub' = [NoSub EXCEPT !.op = "estimateGas", !.options.gasPrice = gasPrice]
        /\ outcome' = NoOutcome
        /\ log' = <<>>
        /\ UNCHANGED <<chainVars, batchVars, config, callers, inits, connection>>

EstimateResults(s, gasPrice, gasEstimates) ==
    [ethTransactions |-> Len(transactionGroups.eth),
     erc20Transactions |-> erc20Count(transactionGroups.erc20, 1),
     totalTransactions |-> getBatchStatus(transactionGroups).totalTransactions,
     gasPrice |-> gasPrice,
     gasEstimates |-> gasEstimates]

\* Lines 249-257, or line 277 when there is no native entry.
EstimateNative(s, lg, gasPrice) ==
    IF Len(transactionGroups.eth) > 0
    THEN Goto("estimateGasETH",
              [s EXCEPT !.options.gasPrice = gasPrice,
                        !.recipients = AccountsOf(transactionGroups.eth),
                        !.amounts = ValuesOf(transactionGroups.eth),
                        !.totalValue = totalValue(transactionGroups.eth, 1)],
              lg)
    ELSE Return(s, lg, EstimateResults(s, gasPrice, <<>>))

\* Lines 217-243: the connection, the counts, the empty-batch check.
EstimateBegin ==
    /\ pc = "estimate"
    /\ \E walletOk \in BOOLEAN :
        LET c == GetConnection(walletOk)
            lg == Connected(c, log)
        IN /\ connection' = c.conn
           /\ IF ~c.ok THEN Throw(sub, lg, "ConnectionError")
              ELSE IF getBatchStatus(transactionGroups).totalTransactions = 0
              THEN Throw(sub, lg, "EmptyBatch")
              ELSE IF sub.options.gasPrice # 0
              THEN EstimateNative(sub, lg, sub.options.gasPrice)
              ELSE Goto("getFeeData", sub, lg)
    /\ UNCHANGED <<chainVars, batchVars, config, callers, inits, opsStarted>>

\* Line 243: provider.getFeeData(); a missing gasPrice becomes 0.
EstimateFeeData ==
    /\ pc = "getFeeData"
    /\ \E ok \in BOOLEAN, gasPrice \in GasPrices :
        IF ok THEN EstimateNative(sub, log, gasPrice)
        ELSE Throw(sub, log, "QueryFailed")
    /\ UNCHANGED <<chainVars, batchVars, config, callers, inits, connection, opsStarted>>

\* Lines 260-277.
EstimateGasETH ==
    /\ pc = "estimateGasETH"
    /\ \E ok \in BOOLEAN, gas \in GasEstimates :
        IF ok /\ EthCallPasses(sub)
        THEN Return(sub, Append(log, Ev("estimate", "multiSendETH", "", 0)),
                    EstimateResults(sub, sub.options.gasPrice,
                        <<[gasEstimate |-> gas, gasWithBuffer |-> withBuffer(gas),
                           totalValue |-> formatEther(sub.totalValue)]>>))
        ELSE Throw(sub, Append(log, Ev("estimate", "multiSendETH", "", 0)),
                   "EstimateFailed")
    /\ UNCHANGED <<chainVars, batchVars, config, callers, inits, connection, opsStarted>>

(***************************************************************************)
(* checkErc20Balances(), lines 284-330.  Nothing in it is caught except    *)
(* the decimals() query: a failed connection or a rejected balanceOf ends  *)
(* the operation with that rejection.                                      *)
(***************************************************************************)
TokenDecimals == {0, 1}

CheckErc20Balances ==
    /\ pc = "idle"
    /\ opsStarted < MaxOps
    /\ opsStarted' = opsStarted + 1
    /\ pc' = "check"
    /\ sub' = [NoSub EXCEPT !.op = "checkErc20Balances"]
    /\ outcome' = NoOutcome
    /\ log' = <<>>
    /\ UNCHANGED <<chainVars, batchVars, config, callers, inits, connection>>

\* The for-in loop of lines 290-327 from group index `from` on: the next
\* group with entries gets its total (lines 301-304); line 329 returns the
\* records when no group is left.
CheckNextGroup(s, lg, from) ==
    LET keys == IF from = 1 THEN KeysOf(transactionGroups.erc20) ELSE s.keys
        g == NextKey(transactionGroups.erc20, keys, from)
        s1 == [s EXCEPT !.keys = keys, !.g = g, !.live = TRUE, !.txs = <<>>]
    IN IF g = 0 THEN Return([s EXCEPT !.keys = keys], lg, s.balances)
       ELSE IF ~HasGroup(transactionGroups.erc20, keys[g])
       THEN Throw([s EXCEPT !.keys = keys, !.g = g], lg, "TypeError")
       ELSE Goto("decimals",
                 [s1 EXCEPT !.totalValue = totalValue(TokenTxs(s1), 1),
                            !.decimals = TokenTxs(s1)[1].decimals],
                 lg)

\* Lines 285-288.
CheckBegin ==
    /\ pc = "check"
    /\ \E walletOk \in BOOLEAN :
        LET c == GetConnection(walletOk)
            lg == Connected(c, log)
        IN /\ connection' = c.conn
           /\ IF ~c.ok THEN Throw(sub, lg, "ConnectionError")
              ELSE CheckNextGroup(sub, lg, 1)
    /\ UNCHANGED <<chainVars, batchVars, config, callers, inits, opsStarted>>

\* Lines 307-313: the token's decimals(), or the first entry's when the
\* query is rejected.
CheckDecimals ==
    /\ pc = "decimals"
    /\ \E ok \in BOOLEAN, decimals \in TokenDecimals :
        Goto("checkBalanceOf",
             IF ok THEN [sub EXCEPT !.decimals = decimals] ELSE sub,
             log)
    /\ UNCHANGED <<chainVars, batchVars, config, callers, inits, connection, opsStarted>>

\* The record of lines 317-325 with `sufficient` true only above the total.
BalanceRecord_strict(s, balance) ==
    [address |-> TokenOf(s),
     balance |-> balance,
     balanceFormatted |-> formatUnits(balance, s.decimals),
     required |-> s.totalValue,
     requiredFormatted |-> formatUnits(s.totalValue, s.decimals),
     sufficient |-> balance > s.totalValue,
     recipients |-> Len(TokenTxs(s))]

\* Lines 317-325.
BalanceRecord(s, balance) ==
    [address |-> TokenOf(s),
     balance |-> balance,
     balanceFormatted |-> formatUnits(balance, s.decimals),
     required |-> s.totalValue,
     requiredFormatted |-> formatUnits(s.totalValue, s.decimals),
     sufficient |-> balance >= s.totalValue,
     recipients |-> Len(TokenTxs(s))]

\* Lines 315-327.
CheckBalanceOf ==
    /\ pc = "checkBalanceOf"
    /\ \E ok \in BOOLEAN :
        LET balance == tokBal[AccountOf(TokenOf(sub))][Signer]
        IN IF ~ok THEN Throw(sub, log, "QueryFailed")
           ELSE CheckNextGroup(
                  [sub EXCEPT !.balances = Append(@, BalanceRecord(sub, balance))],
                  log, sub.g + 1)
    /\ UNCHANGED <<chainVars, batchVars, config, callers, inits, connection, opsStarted>>

(***************************************************************************)
(* SpecSubmit: a manager is created with some configuration, the caller    *)
(* queues entries and then runs asynchronous operations, one at a time,    *)
(* against a ledger on which the signer holds some funds.                  *)
(***************************************************************************)
SubmitAddresses == {"0xAa", "0xRr"}
SubmitTokens == {"0xT1", "0xT2"}
SubmitEthValues == {StrOne}
SubmitTokenValues == {StrOne, StrZero, Malformed}
SubmitDecimals == {0}

InitSubmit ==
    /\ \E e \in {1, EthSupply} :
        ethBal = [a \in Accounts |-> IF a = Signer THEN e * Pow10(EtherDecimals) ELSE 0]
    /\ \E b \in {1, TokSupply}, al \in {0, TokSupply} :
        /\ tokBal = [t \in Tokens |-> [a \in Accounts |->
                        IF a # Signer THEN 0 ELSE IF t = "T1" THEN b ELSE TokSupply]]
        /\ allowance = [t \in Tokens |-> IF t = "T1" THEN al ELSE 0]
    /\ lastCall = NoCall
    /\ InitBatch
    /\ config \in Configs
    /\ connection = "null"
    /\ pc = "idle"
    /\ sub = NoSub
    /\ outcome = NoOutcome
    /\ log = <<>>
    /\ opsStarted = 0
    /\ callers = NoCallers
    /\ inits = NoInits

SubmitIdle == pc = "idle" /\ opsStarted = 0

SubmitAddEth ==
    /\ SubmitIdle
    /\ AddEthTransaction(SubmitAddresses, SubmitEthValues)
    /\ UNCHANGED <<chainVars, asyncVars>>
SubmitAddErc20 ==
    /\ SubmitIdle
    /\ AddErc20Transaction(SubmitTokens, SubmitAddresses, SubmitTokenValues, SubmitDecimals)
    /\ UNCHANGED <<chainVars, asyncVars>>

NextSubmit ==
    \/ SubmitAddEth
    \/ SubmitAddErc20
    \/ SendBatchTransaction
    \/ SendBegin
    \/ SendEstimateETH
    \/ SendMultiSendETH
    \/ SendWaitETH
    \/ SendCheckAndApprove
    \/ SendBalanceOf
    \/ SendAllowance
    \/ SendApprove
    \/ SendWaitApprove
    \/ SendEstimateToken
    \/ SendMultiSendToken
    \/ SendWaitToken
    \/ EstimateGas
    \/ EstimateBegin
    \/ EstimateFeeData
    \/ EstimateGasETH
    \/ CheckErc20Balances
    \/ CheckBegin
    \/ CheckDecimals
    \/ CheckBalanceOf

SpecSubmit == InitSubmit /\ [][NextSubmit]_vars

(***************************************************************************)
(* The manager with callers that do not wait for an operation to end: every *)
(* await of sendBatchTransaction and estimateGas is a point where the      *)
(* caller's other code runs, and that code may call addEthTransaction,     *)
(* addErc20Transaction and clearTransactions.                              *)
(***************************************************************************)
InterleaveAddresses == {"0xAa"}
InterleaveTokens == {"0xT1", "0xT2"}
InterleaveValues == {StrOne}

InitInterleave ==
    /\ ethBal = [a \in Accounts |-> IF a = Signer THEN EthSupply * Pow10(EtherDecimals) ELSE 0]
    /\ tokBal = [t \in Tokens |-> [a \in Accounts |-> IF a = Signer THEN TokSupply ELSE 0]]
    /\ \E al \in {0, TokSupply} : allowance = [t \in Tokens |-> IF t = "T1" THEN al ELSE 0]
    /\ lastCall = NoCall
    /\ InitBatch
    /\ InitAsync

InterleaveAddEth ==
    /\ AddEthTransaction(InterleaveAddresses, InterleaveValues)
    /\ UNCHANGED <<chainVars, asyncVars>>

InterleaveAddErc20 ==
    /\ AddErc20Transaction(InterleaveTokens, InterleaveAddresses, InterleaveValues,
                           SubmitDecimals)
    /\ UNCHANGED <<chainVars, asyncVars>>

\* clearTransactions assigns a new array and a new object (lines 127-128):
\* an array the running operation holds keeps its entries and gets no more.
InterleaveClear ==
    /\ ClearTransactions
    /\ sub' = IF sub.live THEN [sub EXCEPT !.live = FALSE, !.txs = TokenTxs(sub)] ELSE sub
    /\ UNCHANGED <<chainVars, config, callers, inits, connection, pc, outcome, log, opsStarted>>

\* One operation is followed from its call to its end.
InterleaveSend == opsStarted = 0 /\ SendBatchTransaction
InterleaveEstimate == opsStarted = 0 /\ EstimateGas

NextInterleave ==
    \/ InterleaveAddEth
    \/ InterleaveAddErc20
    \/ InterleaveClear
    \/ InterleaveSend
    \/ SendBegin
    \/ SendEstimateETH
    \/ SendMultiSendETH
    \/ SendWaitETH
    \/ SendCheckAndApprove
    \/ SendBalanceOf
    \/ SendAllowance
    \/ SendApprove
    \/ SendWaitApprove
    \/ SendEstimateToken
    \/ SendMultiSendToken
    \/ SendWaitToken
    \/ InterleaveEstimate
    \/ EstimateBegin
    \/ EstimateFeeData
    \/ EstimateGasETH

SpecInterleave == InitInterleave /\ [][NextInterleave]_vars

(***************************************************************************)
(* getConnection(), lines 66-71, under operations that are called without  *)
(* waiting for one another.  Every asynchronous operation starts with      *)
(* `await getConnection()` (lines 170, 217, 285, 334); the call runs up to  *)
(* the await of initializeConnection, and continues with the assignment    *)
(* when that promise is settled.                                           *)
(***************************************************************************)
\* Lines 67-68 up to the await, or lines 67 and 70 when the memo is set.
GetConnectionCall(p) ==
    /\ callers[p].pc = "idle"
    /\ IF connection = "null"
       THEN /\ inits' = [inits EXCEPT !.runs = @ + 1]
            /\ callers' = [callers EXCEPT ![p] =
                             [pc |-> "initializing", run |-> inits.runs + 1, got |-> 0]]
       ELSE /\ inits' = inits
            /\ callers' = [callers EXCEPT ![p] =
                             [pc |-> "connected", run |-> 0, got |-> inits.memo]]
    /\ UNCHANGED <<chainVars, batchVars, config, connection, pc, sub, outcome, log,
                   opsStarted>>

\* Lines 68-70 after the await: the result is assigned to `connection` and
\* returned, or the rejection of initializeConnection is thrown on.
GetConnectionResume(p) ==
    /\ callers[p].pc = "initializing"
    /\ \E walletOk \in BOOLEAN :
        IF initializeConnection(config, walletOk)
        THEN /\ connection' = "ready"
             /\ inits' = [inits EXCEPT !.memo = callers[p].run]
             /\ callers' = [callers EXCEPT ![p] = [@ EXCEPT !.pc = "connected",
                                                            !.got = callers[p].run]]
        ELSE /\ callers' = [callers EXCEPT ![p] = [@ EXCEPT !.pc = "failed"]]
             /\ UNCHANGED <<connection, inits>>
    /\ UNCHANGED <<chainVars, batchVars, config, pc, sub, outcome, log, opsStarted>>

InitConnect ==
    /\ InitLedger
    /\ lastCall = NoCall
    /\ InitBatch
    /\ config \in Configs
    /\ connection = "null"
    /\ pc = "idle"
    /\ sub = NoSub
    /\ outcome = NoOutcome
    /\ log = <<>>
    /\ opsStarted = 0
    /\ callers = NoCallers
    /\ inits = NoInits

NextConnect ==
    \E p \in Callers :
        \/ GetConnectionCall(p)
        \/ GetConnectionResume(p)

SpecConnect == InitConnect /\ [][NextConnect]_vars

(***************************************************************************)
(* Claims about the executor contract.                                     *)
(***************************************************************************)
RECURSIVE ReceivedBy(_, _, _, _)
ReceivedBy(a, recipients, amounts, i) ==
    IF i > Len(recipients) THEN 0
    ELSE (IF recipients[i] = a THEN amounts[i] ELSE 0)
         + ReceivedBy(a, recipients, amounts, i + 1)

LedgerUnchanged == CurrentLedger = lastCall.pre

EthCallWellFormed ==
    /\ lastCall.fn = "multiSendETH"
    /\ Len(lastCall.recipients) = Len(lastCall.amounts)
    /\ Len(lastCall.recipients) > 0
    /\ lastCall.value = SumFrom(lastCall.amounts, 1)

\* C1: a multiSendETH call with arrays of the same nonzero length, only
\* non-zero recipients that accept the transfer and an attached value equal
\* to the sum of amounts commits: every account's native balance grows by
\* exactly the amounts listed for it (the sender's also drops by the attached
\* value), and exactly one MultiSendExecuted event is emitted, with token =
\* address(0), totalAmount = the sum and recipientCount = the array length.
C1_NativeMultiSendSuccess ==
    ( /\ EthCallWellFormed
      /\ \A i \in DOMAIN lastCall.recipients :
            lastCall.recipients[i] # ZeroAddress /\ Accepts(lastCall.recipients[i]) )
    => /\ ~lastCall.reverted
       /\ \A a \in Accounts :
            ethBal[a] = lastCall.pre.eth[a]
                        + ReceivedBy(a, lastCall.recipients, lastCall.amounts, 1)
                        - (IF a = Signer THEN lastCall.value ELSE 0)
       /\ tokBal = lastCall.pre.tok /\ allowance = lastCall.pre.allow
       /\ lastCall.events =
            <<Event(Signer, ZeroAddress, SumFrom(lastCall.amounts, 1),
                    Len(lastCall.recipients))>>

C1_Witness ==
    /\ EthCallWellFormed
    /\ ~lastCall.reverted
    /\ Len(lastCall.recipients) = 2
    /\ lastCall.recipients[1] = "A" /\ lastCall.recipients[2] = "S"
    /\ lastCall.amounts[1] = 2 /\ lastCall.amounts[2] = 1
    /\ ethBal["A"] = lastCall.pre.eth["A"] + 2

\* C2: a multiSendETH call whose arrays differ in length or are empty, whose
\* attached value differs from the sum of amounts, that names address(0) at
\* any position, or in which any recipient's low-level transfer fails,
\* reverts: no balance changes (recipients paid earlier in the loop
\* included) and no event is emitted.
C2_NativeMultiSendAllOrNothing ==
    ( /\ lastCall.fn = "multiSendETH"
      /\ \/ Len(lastCall.recipients) # Len(lastCall.amounts)
         \/ Len(lastCall.recipients) = 0
         \/ lastCall.value # SumFrom(lastCall.amounts, 1)
         \/ \E i \in DOMAIN lastCall.recipients :
               lastCall.recipients[i] = ZeroAddress \/ ~Accepts(lastCall.recipients[i]) )
    => /\ lastCall.reverted
       /\ LedgerUnchanged
       /\ lastCall.events = <<>>

C2_Witness ==
    /\ EthCallWellFormed
    /\ Len(lastCall.recipients) = 2
    /\ lastCall.recipients[1] = "A" /\ lastCall.amounts[1] > 0
    /\ lastCall.recipients[2] = "R"
    /\ lastCall.reverted /\ lastCall.reason = "TransferFailed"
    /\ ethBal["A"] = lastCall.pre.eth["A"]

\* C3: a multiSendToken call made while the caller's allowance to the
\* executor is less than the sum of amounts reverts entirely: every token
\* balance (the caller's, every recipient's) and the allowance are the same
\* after the call as before it.
C3_InsufficientAllowanceReverts ==
    ( /\ lastCall.fn = "multiSendToken"
      /\ lastCall.token \in Tokens
      /\ lastCall.pre.allow[lastCall.token] < SumFrom(lastCall.amounts, 1) )
    => /\ lastCall.reverted
       /\ LedgerUnchanged
       /\ lastCall.events = <<>>

C3_Witness ==
    /\ lastCall.fn = "multiSendToken"
    /\ lastCall.token \in Tokens
    /\ Len(lastCall.recipients) = 2 /\ Len(lastCall.amounts) = 2
    /\ lastCall.recipients[1] = "A" /\ lastCall.recipients[2] = "R"
    /\ lastCall.amounts[1] = 1 /\ lastCall.amounts[2] = 1
    /\ lastCall.pre.allow[lastCall.token] = 1
    /\ lastCall.pre.tok[lastCall.token][Signer] = 2
    /\ lastCall.reverted /\ lastCall.reason = "InsufficientAllowance"
    /\ tokBal = lastCall.pre.tok


(***************************************************************************)
(* Claims about the batch manager's synchronous operations.                *)
(***************************************************************************)
\* C6: a call of addEthTransaction or addErc20Transaction that throws leaves
\* the batch as it was: the same native entries, the same token groups with
\* the same entries, and so the same getBatchStatus() result.
C6_ThrowLeavesBatchUnchanged ==
    (lastOp.threw /\ lastOp.op \in {"addEthTransaction", "addErc20Transaction"})
    => /\ transactionGroups = lastOp.pre
       /\ getBatchStatus(transactionGroups) = getBatchStatus(lastOp.pre)

\* C7: getBatchStatus().totalTransactions is the number of entries added
\* successfully since the last clearTransactions and is ethTransactions +
\* erc20Transactions; right after clearTransactions every count is zero, and
\* clearTransactions on a cleared batch leaves it unchanged.
C7_StatusCounts ==
    LET st == getBatchStatus(transactionGroups)
    IN /\ st.totalTransactions = added
       /\ st.totalTransactions = st.ethTransactions + st.erc20Transactions
       /\ lastOp.op = "clearTransactions" =>
            /\ st.totalTransactions = 0 /\ st.ethTransactions = 0
            /\ st.erc20Transactions = 0 /\ st.erc20TokenCount = 0
            /\ st.uniqueRecipients = 0
            /\ st.totalEthValue = formatEther(0)
            /\ transactionGroups = EmptyGroups
            /\ (lastOp.pre = EmptyGroups => transactionGroups = lastOp.pre)

C7_Witness ==
    /\ lastOp.op = "clearTransactions"
    /\ Len(lastOp.pre.eth) = 1
    /\ Len(lastOp.pre.erc20) = 1 /\ Len(lastOp.pre.erc20[1].txs) = 1
    /\ getBatchStatus(lastOp.pre).totalTransactions = 2
    /\ getBatchStatus(transactionGroups).totalTransactions = 0


(***************************************************************************)
(* Claims about the asynchronous operations.                               *)
(***************************************************************************)
Sending == sub.op = "sendBatchTransaction"
Finished == pc = "idle" /\ outcome.kind # "none"
BatchEmpty == getBatchStatus(transactionGroups).totalTransactions = 0

IsApproveSubmit(e, t) == e.ev = "submit" /\ e.what = "approve" /\ e.token = t
IsApproveReceipt(e, t) == e.ev = "receipt" /\ e.what = "approve" /\ e.token = t
IsTransferStep(e, t) ==
    e.ev \in {"estimate", "submit"} /\ e.what = "multiSendToken" /\ e.token = t

\* C4: in an execution of sendBatchTransaction, whenever an approval was
\* submitted for a token group, its finalization (approveTx.wait()
\* returning) is observed before that group's multiSendToken gas estimate or
\* transfer transaction is submitted.
C4_ApprovalFinalizedBeforeTransfer ==
    Sending =>
      \A t \in SubmitTokens : \A j, i \in DOMAIN log :
        (j < i /\ IsApproveSubmit(log[j], t) /\ IsTransferStep(log[i], t))
        => \E k \in DOMAIN log : j < k /\ k < i /\ IsApproveReceipt(log[k], t)

C4_Witness ==
    /\ Sending
    /\ \E t \in SubmitTokens : \E j, k, i \in DOMAIN log :
        /\ j < k /\ k < i
        /\ IsApproveSubmit(log[j], t)
        /\ IsApproveReceipt(log[k], t)
        /\ log[i].ev = "submit" /\ log[i].what = "multiSendToken" /\ log[i].token = t

Completed(results) == results.ethTransaction # <<>> \/ results.erc20Transactions # <<>>

\* C5: when sendBatchTransaction throws after the transactions of one or
\* more groups were finalized, the receipts of those groups reach the caller
\* together with the failure.
C5_PartialResultsReachCaller ==
    (Sending /\ outcome.kind = "thrown" /\ Completed(sub.results))
    => outcome.value = sub.results

\* C8: sendBatchTransaction on a batch with no entries fails with EmptyBatch
\* as its first step: before the connection is established and without
\* submitting any transaction.
C8_EmptyBatchFailsFirst ==
    (Sending /\ Finished /\ BatchEmpty)
    => /\ outcome.kind = "thrown" /\ outcome.error = "EmptyBatch"
       /\ \A i \in DOMAIN log : log[i].ev \notin {"connect", "estimate", "submit"}

\* C9: estimateGas with no queued entries fails with EmptyBatch and never
\* returns a result; a result it returns never carries a zero cost.
C9_EstimateEmptyBatch ==
    (sub.op = "estimateGas" /\ Finished)
    => /\ BatchEmpty => (outcome.kind = "thrown" /\ outcome.error = "EmptyBatch")
       /\ outcome.kind = "returned" =>
            /\ outcome.value.totalTransactions > 0
            /\ \A i \in DOMAIN outcome.value.gasEstimates :
                 /\ outcome.value.gasEstimates[i].gasEstimate > 0
                 /\ outcome.value.gasEstimates[i].gasWithBuffer > 0

StatusOf(e) == IF e.status = 1 THEN "success" ELSE "failed"
RejectedAwaits ==
    {"ConnectionError", "EmptyBatch", "EstimateFailed", "SubmitFailed", "WaitFailed",
     "QueryFailed", "InsufficientBalance"}

FinalizedEth == \E i \in DOMAIN log : log[i] = Ev("receipt", "multiSendETH", "", 1)
FinalizedToken(t) == \E i \in DOMAIN log : log[i] = Ev("receipt", "multiSendToken", t, 1)
LaterGroupFailed ==
    \/ outcome.kind = "thrown"
    \/ \E i \in DOMAIN log :
         log[i].ev = "receipt" /\ log[i].what = "multiSendToken" /\ log[i].status = 0

\* C11: in an execution of sendBatchTransaction, once the native group's or
\* a token group's transaction is finalized, no later step of the execution
\* (a later group's success, failed receipt or thrown error) changes what
\* that transaction did on the ledger: the native balances stay as the
\* native group left them and the token's balances as its group left them.
C11_NoCrossGroupRollback ==
    [][Sending =>
        /\ FinalizedEth => ethBal' = ethBal
        /\ \A t \in SubmitTokens :
             FinalizedToken(t) => tokBal'[AccountOf(t)] = tokBal[AccountOf(t)]]_vars

C11_Witness ==
    /\ Sending /\ Finished
    /\ FinalizedEth
    /\ LaterGroupFailed
    /\ \E i \in DOMAIN log : log[i].ev = "submit" /\ log[i].what = "multiSendToken"
    /\ ethBal["A"] > 0

GroupTotal(t) ==
    totalValue(transactionGroups.erc20[GroupIndex(transactionGroups.erc20, t)].txs, 1)
ApprovalSubmitted(t) == \E i \in DOMAIN log : IsApproveSubmit(log[i], t)
ApprovalFinalized(t) == \E i \in DOMAIN log : IsApproveReceipt(log[i], t)

\* C13: during sendBatchTransaction an approval is submitted for a token
\* group exactly when the queried allowance is below the group's total: it
\* is submitted only from a state where the allowance is below the total,
\* a group that goes on to its transfer without an approval has an allowance
\* of at least the total, and a submitted approval is for exactly the total
\* (the sum of the group's amounts), which is the allowance the ledger shows
\* once the approval is finalized.
C13_MinimalApproval ==
    Sending =>
      /\ \A i \in DOMAIN log : \A t \in SubmitTokens :
           IsApproveSubmit(log[i], t) => log[i].status = GroupTotal(t)
      /\ pc \in {"approve", "waitApprove"} =>
           /\ allowance[AccountOf(TokenOf(sub))] < sub.totalValue
           /\ sub.totalValue = GroupTotal(TokenOf(sub))
      /\ pc \in {"estimateToken", "multiSendToken", "waitToken"} =>
           IF ApprovalSubmitted(TokenOf(sub))
           THEN /\ ApprovalFinalized(TokenOf(sub))
                /\ allowance[AccountOf(TokenOf(sub))] = GroupTotal(TokenOf(sub))
           ELSE allowance[AccountOf(TokenOf(sub))] >= GroupTotal(TokenOf(sub))

C13_Witness ==
    /\ Sending
    /\ pc = "multiSendToken"
    /\ ApprovalFinalized(TokenOf(sub))
    /\ GroupTotal(TokenOf(sub)) > 0
    /\ allowance[AccountOf(TokenOf(sub))] = GroupTotal(TokenOf(sub))
    /\ tokBal[AccountOf(TokenOf(sub))][Signer] > GroupTotal(TokenOf(sub))

C13_WitnessNoApproval ==
    /\ Sending
    /\ pc = "multiSendToken"
    /\ ~ApprovalSubmitted(TokenOf(sub))
    /\ GroupTotal(TokenOf(sub)) > 0

TokenSteps == {"allowance", "approve", "waitApprove", "estimateToken", "multiSendToken",
               "waitToken"}
TokenEvents(t) == {i \in DOMAIN log : log[i].ev \in {"estimate", "submit", "receipt"}
                                      /\ log[i].token = t}

\* C14: during sendBatchTransaction a token group whose total exceeds the
\* signer's balance of the token never gets past the balance check: the
\* allowance query, the approval, the estimate and the transfer are only
\* reached with a balance of at least the total, and the submission that
\* throws InsufficientBalance has submitted nothing for that group.
C14_InsufficientBalanceFailsFast ==
    Sending =>
      /\ pc \in TokenSteps =>
           tokBal[AccountOf(TokenOf(sub))][Signer] >= GroupTotal(TokenOf(sub))
      /\ (outcome.kind = "thrown" /\ outcome.error = "InsufficientBalance") =>
           /\ tokBal[AccountOf(TokenOf(sub))][Signer] < GroupTotal(TokenOf(sub))
           /\ TokenEvents(TokenOf(sub)) = {}
      /\ (outcome.kind = "thrown" /\ sub.g > 0
          /\ tokBal[AccountOf(TokenOf(sub))][Signer] < GroupTotal(TokenOf(sub))
          /\ TokenEvents(TokenOf(sub)) = {}) =>
           outcome.error \in {"InsufficientBalance", "QueryFailed"}

C14_Witness ==
    /\ Sending
    /\ outcome.kind = "thrown"
    /\ outcome.error = "InsufficientBalance"
    /\ allowance[AccountOf(TokenOf(sub))] < GroupTotal(TokenOf(sub))
    /\ FinalizedEth

(***************************************************************************)
(* Further claims about the batch manager's synchronous operations.        *)
(***************************************************************************)
\* C15: getBatchStatus().uniqueRecipients is the number of distinct
\* recipient addresses over the native and the token entries together,
\* where address strings that differ only in letter case are one recipient.
C15_UniqueRecipientsCaseNormalized ==
    getBatchStatus(transactionGroups).uniqueRecipients
      = Cardinality({AccountOf(to) : to \in uniqueRecipients(transactionGroups)})

(***************************************************************************)
(* Further claims about the asynchronous operations.                       *)
(***************************************************************************)
CeilMargin(simulatedCost) == (simulatedCost * 110 + 99) \div 100

\* C16: a gas budget derived from an estimate is ceil(simulatedCost * 1.10):
\* the gasWithBuffer of every estimate estimateGas returns, and the gas
\* limit sendBatchTransaction uses for the native group and for a token
\* group when the caller gave no override.
C16_GasMarginIsCeiling ==
    /\ (sub.op = "estimateGas" /\ outcome.kind = "returned") =>
         \A i \in DOMAIN outcome.value.gasEstimates :
           outcome.value.gasEstimates[i].gasWithBuffer
             = CeilMargin(outcome.value.gasEstimates[i].gasEstimate)
    /\ (Sending /\ pc = "multiSendETH" /\ sub.options.ethGasLimit = 0) =>
         sub.gasLimit \in {CeilMargin(gas) : gas \in GasEstimates}
    /\ (Sending /\ pc = "multiSendToken"
        /\ ~HasTokenGasLimit(sub.options, TokenOf(sub))) =>
         sub.gasLimit \in {CeilMargin(gas) : gas \in GasEstimates}

(***************************************************************************)
(* Further claims about the executor contract.                             *)
(***************************************************************************)
HasZeroAmount(amounts) == \E i \in DOMAIN amounts : amounts[i] = 0
FirstZero(amounts) ==
    CHOOSE i \in DOMAIN amounts :
        amounts[i] = 0 /\ \A j \in 1..(i - 1) : amounts[j] # 0
SumBefore(amounts, z) == SumFrom(SubSeq(amounts, 1, z - 1), 1)

TokenCallWithZero ==
    /\ lastCall.fn = "multiSendToken"
    /\ HasZeroAmount(lastCall.amounts)

\* Every check that precedes the amount check of the first zero position
\* passes.
ZeroIsFirstFailure ==
    LET z == FirstZero(lastCall.amounts)
    IN /\ lastCall.token \in Tokens
       /\ Len(lastCall.recipients) = Len(lastCall.amounts)
       /\ lastCall.pre.allow[lastCall.token] >= SumFrom(lastCall.amounts, 1)
       /\ \A j \in 1..z : lastCall.recipients[j] # ZeroAddress
       /\ lastCall.pre.tok[lastCall.token][Signer] >= SumBefore(lastCall.amounts, z)

\* C17 as stated: every multiSendToken call (on a token, with arrays of the
\* same length) whose amounts contain a zero, with an allowance that covers
\* the total, reverts with ZeroAmount and leaves the ledger as it was.
C17_ZeroAmountRevertsWithZeroAmount ==
    ( /\ TokenCallWithZero
      /\ lastCall.token \in Tokens
      /\ Len(lastCall.recipients) = Len(lastCall.amounts)
      /\ lastCall.pre.allow[lastCall.token] >= SumFrom(lastCall.amounts, 1) )
    => /\ lastCall.reverted
       /\ lastCall.reason = "ZeroAmount"
       /\ LedgerUnchanged

\* C17, amended: every multiSendToken call whose amounts contain a zero
\* reverts, with the transfers of earlier positions undone and no event; the
\* zero entry is never skipped.  The revert is the ZeroAmount one when no
\* earlier check fails: the token is non-zero, the arrays have the same
\* length, the allowance covers the total, the recipients up to and including
\* the first zero position are non-zero and the transfers before it succeed.
C17_ZeroAmountAborts ==
    TokenCallWithZero =>
      /\ lastCall.reverted
      /\ LedgerUnchanged
      /\ lastCall.events = <<>>
      /\ ZeroIsFirstFailure => lastCall.reason = "ZeroAmount"

C17_Witness ==
    /\ lastCall.fn = "multiSendToken"
    /\ lastCall.token \in Tokens
    /\ lastCall.recipients = <<"A", "R">>
    /\ lastCall.amounts = <<1, 0>>
    /\ lastCall.pre.allow[lastCall.token] >= 1
    /\ lastCall.pre.tok[lastCall.token][Signer] >= 1
    /\ lastCall.reverted /\ lastCall.reason = "ZeroAmount"
    /\ tokBal[lastCall.token]["A"] = lastCall.pre.tok[lastCall.token]["A"]

\* What the positions before i of a multiTokenTransfer call have moved of
\* token t.
SpentBefore(t, tokens, amounts, i) ==
    ReceivedBy(t, SubSeq(tokens, 1, i - 1), SubSeq(amounts, 1, i - 1), 1)

\* Position i of the call passes: a non-zero token, a non-zero amount, and
\* the allowance and the balance that the earlier positions left cover
\* amounts[i].
PositionPasses(i) ==
    LET t == lastCall.tokens[i]
        spent == SpentBefore(t, lastCall.tokens, lastCall.amounts, i)
    IN /\ t # ZeroAddress
       /\ lastCall.amounts[i] > 0
       /\ lastCall.pre.allow[t] - spent >= lastCall.amounts[i]
       /\ lastCall.pre.tok[t][Signer] - spent >= lastCall.amounts[i]

MultiTokenCallPasses ==
    /\ Len(lastCall.tokens) = Len(lastCall.amounts)
    /\ Len(lastCall.tokens) > 0
    /\ lastCall.recipients[1] # ZeroAddress
    /\ \A i \in DOMAIN lastCall.tokens : PositionPasses(i)

\* C18: multiTokenTransfer(tokens, recipient, amounts) checks, at position i,
\* the caller's allowance for tokens[i] as the earlier positions left it
\* against amounts[i] alone, so the call commits exactly when every position
\* passes on its own; a call with a failing position reverts with the
\* transfers and events of the earlier positions undone; a committed call
\* emits tokens.length events, the i-th for tokens[i] and amounts[i] with
\* recipientCount 1, and moves each amount to the recipient.
C18_MultiTokenTransferAtomic ==
    lastCall.fn = "multiTokenTransfer" =>
      /\ lastCall.reverted <=> ~MultiTokenCallPasses
      /\ lastCall.reverted => (LedgerUnchanged /\ lastCall.events = <<>>)
      /\ ~lastCall.reverted =>
           /\ Len(lastCall.events) = Len(lastCall.tokens)
           /\ \A i \in DOMAIN lastCall.tokens :
                lastCall.events[i]
                  = Event(Signer, lastCall.tokens[i], lastCall.amounts[i], 1)
           /\ \A t \in Tokens :
                LET moved == SpentBefore(t, lastCall.tokens, lastCall.amounts,
                                         Len(lastCall.tokens) + 1)
                IN /\ tokBal[t][lastCall.recipients[1]]
                        = lastCall.pre.tok[t][lastCall.recipients[1]] + moved
                   /\ tokBal[t][Signer] = lastCall.pre.tok[t][Signer] - moved
                   /\ allowance[t] = lastCall.pre.allow[t] - moved

C18_Witness ==
    /\ lastCall.fn = "multiTokenTransfer"
    /\ lastCall.tokens = <<"T1", "T2">>
    /\ lastCall.amounts = <<1, 1>>
    /\ lastCall.pre.allow["T1"] = 1 /\ lastCall.pre.allow["T2"] = 1
    /\ ~lastCall.reverted
    /\ Len(lastCall.events) = 2

C18_WitnessUndone ==
    /\ lastCall.fn = "multiTokenTransfer"
    /\ lastCall.tokens = <<"T1", "T2">>
    /\ lastCall.amounts = <<1, 1>>
    /\ lastCall.pre.allow["T1"] = 1 /\ lastCall.pre.allow["T2"] = 0
    /\ lastCall.recipients[1] = "A"
    /\ lastCall.reverted /\ lastCall.reason = "InsufficientAllowance"
    /\ tokBal = lastCall.pre.tok

C20_FailureStopsOnlyItsGroup ==
    (Sending /\ Finished /\ sub.g > 0)
    => NextGroup(transactionGroups.erc20, sub.g + 1) = 0

NativeEvents == {i \in DOMAIN log : log[i].what = "multiSendETH"}
AllTokenEvents == {i \in DOMAIN log : log[i].token # ""}
ArraysListEntries(txs) ==
    /\ Len(sub.recipients) = Len(txs)
    /\ Len(sub.amounts) = Len(txs)
    /\ \A i \in DOMAIN txs :
         /\ sub.recipients[i] = AccountOf(txs[i].to)
         /\ sub.amounts[i] = txs[i].value

\* C21: in an execution of sendBatchTransaction the native group's
\* transaction, if there is one, is submitted and finalized before any step
\* of a token group; the token groups are processed in the order in which
\* they were created; and the recipients and amounts arrays of a group list
\* its entries in insertion order, position i of both belonging to entry i.
C21_SubmissionOrder ==
    Sending =>
      /\ \A i \in NativeEvents : \A j \in AllTokenEvents : i < j
      /\ (pc \in TokenSteps \cup {"checkAndApprove", "balanceOf"} /\ Len(transactionGroups.eth) > 0) =>
           \E i \in DOMAIN log : log[i].ev = "receipt" /\ log[i].what = "multiSendETH"
      /\ \A i, j \in AllTokenEvents :
           (i < j /\ log[i].token # log[j].token) =>
             GroupIndex(transactionGroups.erc20, log[i].token)
               < GroupIndex(transactionGroups.erc20, log[j].token)
      /\ pc \in TokenSteps \cup {"checkAndApprove", "balanceOf"} =>
           sub.g = GroupIndex(transactionGroups.erc20, TokenOf(sub))
      /\ pc \in {"estimateETH", "multiSendETH", "waitETH"} =>
           ArraysListEntries(transactionGroups.eth)
      /\ pc \in {"estimateToken", "multiSendToken", "waitToken"} =>
           ArraysListEntries(TokenTxs(sub))

C21_Witness ==
    /\ Sending /\ Finished
    /\ Len(transactionGroups.erc20) = 2
    /\ transactionGroups.erc20[1].tokenAddress = "0xT2"
    /\ \E i, j \in DOMAIN log :
         /\ i < j
         /\ log[i] = Ev("receipt", "multiSendToken", "0xT2", 1)
         /\ log[j] = Ev("receipt", "multiSendToken", "0xT1", 1)

C21_WitnessArrays ==
    /\ Sending
    /\ pc = "waitToken"
    /\ sub.recipients = <<"R", "A">>
    /\ FinalizedEth = FALSE

AllEntries ==
    {transactionGroups.eth[i] : i \in DOMAIN transactionGroups.eth}
      \cup UNION {{transactionGroups.erc20[g].txs[i] : i \in DOMAIN transactionGroups.erc20[g].txs} :
                    g \in DOMAIN transactionGroups.erc20}

\* C24: every entry of the batch, native or token, has a well-formed and
\* non-zero recipient: the add functions never store the zero address.
C24_RecipientsNonZero ==
    \A tx \in AllEntries : isAddress(tx.to) /\ AccountOf(tx.to) # ZeroAddress

\* C25: every stored amount is an unsigned integer of at most 256 bits: no
\* negative amount and no amount above the largest uint256 is ever stored.
C25_AmountsAreUint256 ==
    \A tx \in AllEntries : tx.value >= 0 /\ tx.value <= MaxUint

Checking == sub.op = "checkErc20Balances"
Estimating == sub.op = "estimateGas"
OperationStep == pc # "idle" \/ pc' # "idle"

\* C22: no step of checkErc20Balances, estimateGas or sendBatchTransaction,
\* whether the operation goes on to succeed, fail or throw, changes the
\* batch: the entries queued before the operation are the entries queued
\* after it, so a second sendBatchTransaction without a clear in between
\* submits the same recipients and amounts again.
C22_OperationsKeepBatch ==
    [][OperationStep => transactionGroups' = transactionGroups]_vars

\* A second submission of the one native entry has been finalized: its
\* recipient was paid twice.
C22_Witness ==
    /\ Sending /\ Finished /\ outcome.kind = "returned"
    /\ opsStarted = 2
    /\ Len(transactionGroups.eth) = 1
    /\ sub.recipients = AccountsOf(transactionGroups.eth)
    /\ ethBal["A"] = 2 * transactionGroups.eth[1].value

C22_WitnessCheck ==
    /\ Checking /\ Finished /\ outcome.kind = "returned"
    /\ Len(outcome.value) = 1
    /\ ~BatchEmpty

GroupsWithEntries ==
    {g \in DOMAIN transactionGroups.erc20 : Len(transactionGroups.erc20[g].txs) > 0}

\* C23: checkErc20Balances returns one record for exactly each token group
\* with at least one entry; the record's required amount is the sum of the
\* group's amounts, its recipients field the number of entries, and
\* sufficient holds exactly when the signer's balance of the token is at
\* least the required amount.
C23_BalanceRecords ==
    (Checking /\ outcome.kind = "returned") =>
      LET records == outcome.value
      IN /\ Len(records) = Cardinality(GroupsWithEntries)
         /\ \A g \in GroupsWithEntries :
              \E i \in DOMAIN records :
                LET group == transactionGroups.erc20[g]
                    balance == tokBal[AccountOf(group.tokenAddress)][Signer]
                IN /\ records[i].address = group.tokenAddress
                   /\ records[i].required = SumFrom(ValuesOf(group.txs), 1)
                   /\ records[i].recipients = Len(group.txs)
                   /\ records[i].balance = balance
                   /\ records[i].sufficient = (balance >= records[i].required)

\* A record whose balance is exactly the required amount, beside a group
\* without entries.
C23_Witness ==
    /\ Checking /\ outcome.kind = "returned"
    /\ Cardinality(GroupsWithEntries) < Len(transactionGroups.erc20)
    /\ \E i \in DOMAIN outcome.value :
         /\ outcome.value[i].balance = outcome.value[i].required
         /\ outcome.value[i].required > 0
         /\ outcome.value[i].sufficient

C23_WitnessInsufficient ==
    /\ Checking /\ outcome.kind = "returned"
    /\ \E i \in DOMAIN outcome.value :
         /\ outcome.value[i].recipients = 2
         /\ ~outcome.value[i].sufficient

\* C27: under every interleaving of addErc20Transaction and
\* clearTransactions calls with the awaits of sendBatchTransaction, the
\* total that was checked against the balance and approved for a token group
\* equals the sum of the amounts submitted in the group's multiSendToken.
C27_ApprovedTotalIsTransferredTotal ==
    (Sending /\ pc \in {"estimateToken", "multiSendToken", "waitToken"}) =>
      sub.totalValue = SumFrom(sub.amounts, 1)

\* C28: under every interleaving of add and clear calls with the awaits of
\* sendBatchTransaction and estimateGas, the value attached to multiSendETH
\* (in the estimate and in the submitted transaction) is the sum of the
\* amounts array of the same call, and the recipients and amounts arrays of
\* the call have the same length.
C28_NativeValueIsSumOfAmounts ==
    pc \in {"estimateETH", "multiSendETH", "waitETH", "estimateGasETH"} =>
      /\ sub.totalValue = SumFrom(sub.amounts, 1)
      /\ Len(sub.recipients) = Len(sub.amounts)

\* The transaction is in flight with one entry while the batch has got a
\* second native entry since.
C28_Witness ==
    /\ Sending
    /\ pc = "waitETH"
    /\ Len(sub.amounts) = 1
    /\ Len(transactionGroups.eth) = 2

C28_WitnessCleared ==
    /\ Estimating
    /\ pc = "estimateGasETH"
    /\ Len(sub.amounts) = 2
    /\ Len(transactionGroups.eth) = 0

\* C26: the connection is built on first use and memoized:
\* initializeConnection is called at most once over the manager's lifetime
\* under every interleaving, operations started before the first
\* initialization has completed included, and all operations use the same
\* connection.
C26_ConnectionInitializedOnce ==
    /\ inits.runs <= 1
    /\ \A p, q \in Callers :
         (callers[p].pc = "connected" /\ callers[q].pc = "connected") =>
           callers[p].got = callers[q].got

=============================================================================
